---- MODULE Spec2Model ----
(***************************************************************************)
(* poststack: the catalog inspector (type deduction and resolution) and    *)
(* the fluent query/command builder with its transport.                    *)
(*                                                                         *)
(* JavaScript strings that the code takes apart (endsWith, startsWith,     *)
(* substring, regex replace, toUpperCase) are sequences of one-character   *)
(* strings.  null is the one-element sequence Null, which is no string.    *)
(***************************************************************************)
EXTENDS Integers, Sequences, FiniteSets, TLC

(* ------------------------------------------------------------------ *)
(* String literals of inspector.ts                                     *)
(* ------------------------------------------------------------------ *)
Null == <<"<null>">>
EmptyStr == <<>>

S_boolean == <<"b","o","o","l","e","a","n">>
S_bool == <<"b","o","o","l">>
S_int2 == <<"i","n","t","2">>
S_int4 == <<"i","n","t","4">>
S_int8 == <<"i","n","t","8">>
S_bigint == <<"b","i","g","i","n","t">>
S_money == <<"m","o","n","e","y">>
S_numeric == <<"n","u","m","e","r","i","c">>
S_text == <<"t","e","x","t">>
S_text_not_blank == <<"t","e","x","t","_","n","o","t","_","b","l","a","n","k">>
S_uuid == <<"u","u","i","d">>
S_citext == <<"c","i","t","e","x","t">>
S_timestamp == <<"t","i","m","e","s","t","a","m","p">>
S_timestamptz == <<"t","i","m","e","s","t","a","m","p","t","z">>
S_timestamp_without_time_zone ==
  <<"t","i","m","e","s","t","a","m","p"," ","w","i","t","h","o","u","t"," ",
    "t","i","m","e"," ","z","o","n","e">>
S_timestamp_with_time_zone ==
  <<"t","i","m","e","s","t","a","m","p"," ","w","i","t","h"," ",
    "t","i","m","e"," ","z","o","n","e">>
S_USER_DEFINED == <<"U","S","E","R","-","D","E","F","I","N","E","D">>
S_ARRAY == <<"A","R","R","A","Y">>
S_not_null == <<"_","n","o","t","_","n","u","l","l">>
S_underscore == <<"_">>

UNRESOLVED_UDT == "UNRESOLVED_UDT"

(* Catalog names used as inputs. *)
S_json == <<"j","s","o","n">>
S_mood == <<"m","o","o","d">>
S_addr == <<"a","d","d","r">>
S_ghost == <<"g","h","o","s","t">>
S_users == <<"u","s","e","r","s">>
S_get_mood == <<"g","e","t","_","m","o","o","d">>

(* ------------------------------------------------------------------ *)
(* String primitives                                                   *)
(* ------------------------------------------------------------------ *)
endsWith(s, suffix) ==
  /\ Len(s) >= Len(suffix)
  /\ SubSeq(s, Len(s) - Len(suffix) + 1, Len(s)) = suffix

startsWith(s, prefix) ==
  /\ Len(s) >= Len(prefix)
  /\ SubSeq(s, 1, Len(prefix)) = prefix

(* s.substring(from) and s.substring(from, to), 0-based as in JS *)
substringFrom(s, from) == SubSeq(s, from + 1, Len(s))

substring(s, from, to) == SubSeq(s, from + 1, to)

includes(list, x) == \E i \in DOMAIN list : list[i] = x

LowerCase ==
  <<"a","b","c","d","e","f","g","h","i","j","k","l","m",
    "n","o","p","q","r","s","t","u","v","w","x","y","z">>
UpperCase ==
  <<"A","B","C","D","E","F","G","H","I","J","K","L","M",
    "N","O","P","Q","R","S","T","U","V","W","X","Y","Z">>
Digits == <<"0","1","2","3","4","5","6","7","8","9">>

toUpperCase(c) ==
  IF includes(LowerCase, c)
    THEN UpperCase[CHOOSE i \in DOMAIN LowerCase : LowerCase[i] = c]
    ELSE c

(* the regex class \w *)
isWordChar(c) ==
  includes(LowerCase, c) \/ includes(UpperCase, c) \/ includes(Digits, c) \/ c = "_"

(* s.replace(/_(\w)/g, (_, w) => w.toUpperCase()) *)
RECURSIVE replaceSnake(_)
replaceSnake(s) ==
  IF s = <<>> THEN <<>>
  ELSE IF Len(s) >= 2 /\ s[1] = "_" /\ isWordChar(s[2])
    THEN <<toUpperCase(s[2])>> \o replaceSnake(substringFrom(s, 2))
    ELSE <<s[1]>> \o replaceSnake(substringFrom(s, 1))

snakeToPascal(word) ==
  <<toUpperCase(word[1])>> \o replaceSnake(substringFrom(word, 1))

(* ------------------------------------------------------------------ *)
(* TsType (metadata.ts) as tagged tuples; a primitive is <<tag>>        *)
(* ------------------------------------------------------------------ *)
T_boolean == <<"boolean">>
T_number == <<"number">>
T_string == <<"string">>
T_Date == <<"Date">>
NoType == <<"null">>

T_array(inner) == <<"array", inner>>
T_unresolved(udt) == <<UNRESOLVED_UDT, udt>>
T_interface(tsName) == <<"interface", tsName>>
T_enum(tsName) == <<"enum", tsName>>

(* JS truthiness of a string | null *)
truthy(s) == s # Null /\ s # EmptyStr

NumberTypes == {S_int2, S_int4, S_int8, S_bigint, S_money, S_numeric}
StringTypes == {S_text, S_text_not_blank, S_uuid, S_citext}
KnownDateTypes ==
  {S_timestamp, S_timestamptz, S_timestamp_without_time_zone, S_timestamp_with_time_zone}

isNumberType(s) == truthy(s) /\ s \in NumberTypes

isStringType(s) == truthy(s) /\ s \in StringTypes

isKnownDateType(s) == truthy(s) /\ s \in KnownDateTypes

(* deduceType trying the array rule before the others and keeping whatever
   the element deduces to *)
RECURSIVE deduceType_arrayFirst(_, _, _)
deduceType_arrayFirst(type, udt, udts) ==
  IF type = S_ARRAY /\ udt # Null
    THEN LET arrayType == deduceType_arrayFirst(udt, Null, udts)
         IN  T_array(IF arrayType = NoType THEN T_unresolved(udt) ELSE arrayType)
  ELSE IF type = S_boolean \/ udt = S_boolean THEN T_boolean
  ELSE IF \/ isNumberType(type) \/ isNumberType(udt)
          \/ includes(udts.number, type)
          \/ (truthy(udt) /\ includes(udts.number, udt))
    THEN T_number
  ELSE IF \/ isStringType(type) \/ isStringType(udt)
          \/ includes(udts.string, type)
          \/ (truthy(udt) /\ includes(udts.string, udt))
    THEN T_string
  ELSE IF isKnownDateType(type) \/ isKnownDateType(udt) THEN T_Date
  ELSE IF type = S_USER_DEFINED THEN T_unresolved(udt)
  ELSE NoType

(* deduceType consulting the string allow-list for the underlying name only *)
RECURSIVE deduceType_stringListByUdt(_, _, _)
deduceType_stringListByUdt(type, udt, udts) ==
  IF type = S_boolean \/ udt = S_boolean THEN T_boolean
  ELSE IF \/ isNumberType(type) \/ isNumberType(udt)
          \/ includes(udts.number, type)
          \/ (truthy(udt) /\ includes(udts.number, udt))
    THEN T_number
  ELSE IF \/ isStringType(type) \/ isStringType(udt)
          \/ (truthy(udt) /\ includes(udts.string, udt))
    THEN T_string
  ELSE IF isKnownDateType(type) \/ isKnownDateType(udt) THEN T_Date
  ELSE IF type = S_USER_DEFINED THEN T_unresolved(udt)
  ELSE IF type = S_ARRAY /\ udt # Null
    THEN LET arrayType == deduceType_stringListByUdt(udt, Null, udts)
         IN  T_array(IF arrayType = NoType THEN T_unresolved(udt) ELSE arrayType)
  ELSE NoType

(* deduceType trying the Date rule before the String rule *)
RECURSIVE deduceType_dateFirst(_, _, _)
deduceType_dateFirst(type, udt, udts) ==
  IF type = S_boolean \/ udt = S_boolean THEN T_boolean
  ELSE IF \/ isNumberType(type) \/ isNumberType(udt)
          \/ includes(udts.number, type)
          \/ (truthy(udt) /\ includes(udts.number, udt))
    THEN T_number
  ELSE IF isKnownDateType(type) \/ isKnownDateType(udt) THEN T_Date
  ELSE IF \/ isStringType(type) \/ isStringType(udt)
          \/ includes(udts.string, type)
          \/ (truthy(udt) /\ includes(udts.string, udt))
    THEN T_string
  ELSE IF type = S_USER_DEFINED THEN T_unresolved(udt)
  ELSE IF type = S_ARRAY /\ udt # Null
    THEN LET arrayType == deduceType_dateFirst(udt, Null, udts)
         IN  T_array(IF arrayType = NoType THEN T_unresolved(udt) ELSE arrayType)
  ELSE NoType

(* deduceType(type, udt, udts): a TsType, or NoType for null *)
RECURSIVE deduceType(_, _, _)
deduceType(type, udt, udts) ==
  IF type = S_boolean \/ udt = S_boolean THEN T_boolean
  ELSE IF \/ isNumberType(type) \/ isNumberType(udt)
          \/ includes(udts.number, type)
          \/ (truthy(udt) /\ includes(udts.number, udt))
    THEN T_number
  ELSE IF \/ isStringType(type) \/ isStringType(udt)
          \/ includes(udts.string, type)
          \/ (truthy(udt) /\ includes(udts.string, udt))
    THEN T_string
  ELSE IF isKnownDateType(type) \/ isKnownDateType(udt) THEN T_Date
  ELSE IF type = S_USER_DEFINED THEN T_unresolved(udt)
  ELSE IF type = S_ARRAY /\ udt # Null
    THEN LET arrayType == deduceType(udt, Null, udts)
         IN  T_array(IF arrayType = NoType THEN T_unresolved(udt) ELSE arrayType)
  ELSE NoType

(* Errors are tuples <<kind, ...>>; NoError is the empty tuple. *)
NoError == <<>>
UnhandledColumnError(type, udt, name) == <<"Unhandled type", type, udt, name>>
UnhandledError(type, udt) == <<"Unhandled type", type, udt>>
CantResolveError(name) == <<"Can't resolve type", name>>

(* forceDeduceType: [tsType, error] *)
forceDeduceType(type, udt, udts) ==
  LET t == deduceType(type, udt, udts)
  IN  IF t = NoType
        THEN [tsType |-> NoType, error |-> UnhandledError(type, udt)]
        ELSE [tsType |-> t, error |-> NoError]

(* the underlying name and nullability getAttribute hands to deduceType *)
stripNotNull(udt) ==
  IF udt # Null /\ endsWith(udt, S_not_null)
    THEN substring(udt, 0, Len(udt) - Len(S_not_null))
    ELSE udt

stripArrayPrefix(udt) ==
  IF udt # Null /\ startsWith(udt, S_underscore)
    THEN substringFrom(udt, 1)
    ELSE udt

(* makeGetAttribute(udts)(record): [attr, error] *)
getAttribute(udts, rec) ==
  LET nullable == IF rec.udt # Null /\ endsWith(rec.udt, S_not_null)
                    THEN FALSE ELSE rec.nullable
      udt == stripArrayPrefix(stripNotNull(rec.udt))
      tsType == deduceType(rec.type, udt, udts)
  IN  IF tsType = NoType
        THEN [attr |-> <<>>, error |-> UnhandledColumnError(rec.type, udt, rec.name)]
        ELSE [attr |-> [name |-> rec.name, order |-> rec.order,
                        nullable |-> nullable, tsType |-> tsType],
              error |-> NoError]

(* ------------------------------------------------------------------ *)
(* State                                                               *)
(* ------------------------------------------------------------------ *)
VARIABLES
  catalog,    \* what the database answers to the discovery queries
  udts,       \* InspectOptions.udts after the defaults are merged in
  pc,         \* where inspect() is
  enums, types, tables, functions,   \* the schema under construction
  resolved,   \* the count resolveTypes returned
  error       \* the error inspect() rejected with, or NoError

inspectVars == <<catalog, udts, pc, enums, types, tables, functions, resolved, error>>

VARIABLES
  builder,    \* the class of the builder at hand, "none" before one is made
  model,      \* its query / command object: a function from the keys present
  transport,  \* the calls the ApiTransport has received, oldest first
  thrown,     \* the error the last call threw, or NoError
  last,       \* the last call made: method, arguments, the model before it
  chain       \* the number of calls made in this chain

builderVars == <<builder, model, transport, thrown, last, chain>>

VARIABLES
  inflight,   \* the per-item queries in flight, by position in the listing
  settled,    \* the values of the callbacks Promise.all has seen fulfil
  arrivals    \* the per-item queries answered so far, in the order they were

fanVars == <<inflight, settled, arrivals>>

vars == <<inspectVars, builderVars, fanVars>>

(* ------------------------------------------------------------------ *)
(* Discovery                                                           *)
(* ------------------------------------------------------------------ *)
RECURSIVE SelectRows(_, _, _)
SelectRows(rows, field, value) ==
  IF rows = <<>> THEN <<>>
  ELSE IF Head(rows)[field] = value
    THEN <<Head(rows)>> \o SelectRows(Tail(rows), field, value)
    ELSE SelectRows(Tail(rows), field, value)

(* the reduce of discoverEnums over the label rows *)
RECURSIVE reduceEnums(_, _)
reduceEnums(acc, rows) ==
  IF rows = <<>> THEN acc
  ELSE LET r == Head(rows)
           field == [name |-> r.name, order |-> r.order]
           found == {i \in DOMAIN acc : acc[i].name = r.enum_name}
       IN  IF found = {}
             THEN reduceEnums(
                    Append(acc, [name |-> r.enum_name,
                                 tsName |-> snakeToPascal(r.enum_name),
                                 fields |-> <<field>>]),
                    Tail(rows))
             ELSE LET i == CHOOSE k \in found : \A j \in found : k <= j
                  IN  reduceEnums([acc EXCEPT ![i].fields = Append(@, field)], Tail(rows))

discoverEnums(cat) == reduceEnums(<<>>, cat.enumRows)

(* rows.map(f) where f may throw: [items, error], error of the first throw *)
RECURSIVE mapGetAttribute(_, _)
mapGetAttribute(u, rows) ==
  IF rows = <<>> THEN [items |-> <<>>, error |-> NoError]
  ELSE LET a == getAttribute(u, Head(rows))
       IN  IF a.error # NoError THEN [items |-> <<>>, error |-> a.error]
           ELSE LET rest == mapGetAttribute(u, Tail(rows))
                IN  [items |-> <<a.attr>> \o rest.items, error |-> rest.error]

RECURSIVE mapParameters(_, _)
mapParameters(u, rows) ==
  IF rows = <<>> THEN [items |-> <<>>, error |-> NoError]
  ELSE LET r == Head(rows)
           t == forceDeduceType(r.type, r.udt, u)
       IN  IF t.error # NoError THEN [items |-> <<>>, error |-> t.error]
           ELSE LET rest == mapParameters(u, Tail(rows))
                IN  [items |-> <<[name |-> r.name, order |-> r.order,
                                  nullable |-> FALSE, tsType |-> t.tsType]>>
                               \o rest.items,
                     error |-> rest.error]

(* one callback of discoverTypes: [item, error] *)
discoverType(cat, u, row) ==
  LET m == mapGetAttribute(u, SelectRows(cat.attributeRows, "owner", row.name))
  IN  [item |-> [name |-> row.name, tsName |-> snakeToPascal(row.name),
                 attributes |-> m.items],
       error |-> m.error]

(* one callback of discoverTables *)
discoverTable(cat, u, row) ==
  LET m == mapGetAttribute(u, SelectRows(cat.columnRows, "owner", row.name))
  IN  [item |-> [name |-> row.name, tsName |-> snakeToPascal(row.name),
                 columns |-> m.items],
       error |-> m.error]

(* one callback of discoverFunctions: the return type is deduced before the
   parameter query is issued *)
discoverFunction(cat, u, row) ==
  LET ret == forceDeduceType(row.type, row.udt, u)
      m == mapParameters(u, SelectRows(cat.parameterRows, "owner", row.specific_name))
  IN  IF ret.error # NoError
        THEN [item |-> [name |-> row.name, returnType |-> NoType, parameters |-> <<>>],
              error |-> ret.error]
        ELSE [item |-> [name |-> row.name, returnType |-> ret.tsType,
                        parameters |-> m.items],
              error |-> m.error]

(* ------------------------------------------------------------------ *)
(* Resolution                                                          *)
(* ------------------------------------------------------------------ *)
FirstNamed(coll, name) ==
  LET found == {i \in DOMAIN coll : coll[i].name = name}
  IN  IF found = {} THEN 0 ELSE CHOOSE k \in found : \A j \in found : k <= j

(* resolveType leaving a name that matches nothing in place, without a throw *)
RECURSIVE resolveType_silent(_, _, _)
resolveType_silent(tsType, typs, enms) ==
  IF tsType[1] = "array" /\ tsType[2][1] = UNRESOLVED_UDT
    THEN LET fake == resolveType_silent(tsType[2], typs, enms)
         IN  [tsType |-> T_array(fake.tsType), n |-> 1, error |-> NoError]
  ELSE IF tsType[1] # UNRESOLVED_UDT
    THEN [tsType |-> tsType, n |-> 0, error |-> NoError]
  ELSE LET t == FirstNamed(typs, tsType[2])
           e == FirstNamed(enms, tsType[2])
       IN  IF t # 0
             THEN [tsType |-> T_interface(typs[t].tsName), n |-> 1, error |-> NoError]
           ELSE IF e # 0
             THEN [tsType |-> T_enum(enms[e].tsName), n |-> 1, error |-> NoError]
           ELSE [tsType |-> tsType, n |-> 0, error |-> NoError]

(* resolveType not counting the arrays it resolves *)
RECURSIVE resolveType_uncounted(_, _, _)
resolveType_uncounted(tsType, typs, enms) ==
  IF tsType[1] = "array" /\ tsType[2][1] = UNRESOLVED_UDT
    THEN LET fake == resolveType_uncounted(tsType[2], typs, enms)
         IN  IF fake.error # NoError
               THEN [tsType |-> tsType, n |-> 0, error |-> fake.error]
               ELSE [tsType |-> T_array(fake.tsType), n |-> 0, error |-> NoError]
  ELSE IF tsType[1] # UNRESOLVED_UDT
    THEN [tsType |-> tsType, n |-> 0, error |-> NoError]
  ELSE LET t == FirstNamed(typs, tsType[2])
           e == FirstNamed(enms, tsType[2])
       IN  IF t # 0
             THEN [tsType |-> T_interface(typs[t].tsName), n |-> 1, error |-> NoError]
           ELSE IF e # 0
             THEN [tsType |-> T_enum(enms[e].tsName), n |-> 1, error |-> NoError]
           ELSE [tsType |-> tsType, n |-> 0, error |-> CantResolveError(tsType[2])]

(* resolveType on one column's tsType: [tsType, n, error]; on a throw the
   column keeps its type *)
RECURSIVE resolveType(_, _, _)
resolveType(tsType, typs, enms) ==
  IF tsType[1] = "array" /\ tsType[2][1] = UNRESOLVED_UDT
    THEN LET fake == resolveType(tsType[2], typs, enms)
         IN  IF fake.error # NoError
               THEN [tsType |-> tsType, n |-> 0, error |-> fake.error]
               ELSE [tsType |-> T_array(fake.tsType), n |-> 1, error |-> NoError]
  ELSE IF tsType[1] # UNRESOLVED_UDT
    THEN [tsType |-> tsType, n |-> 0, error |-> NoError]
  ELSE LET t == FirstNamed(typs, tsType[2])
           e == FirstNamed(enms, tsType[2])
       IN  IF t # 0
             THEN [tsType |-> T_interface(typs[t].tsName), n |-> 1, error |-> NoError]
           ELSE IF e # 0
             THEN [tsType |-> T_enum(enms[e].tsName), n |-> 1, error |-> NoError]
           ELSE [tsType |-> tsType, n |-> 0, error |-> CantResolveError(tsType[2])]

(* the inner loop over one owner's attributes: [items, n, error] *)
RECURSIVE resolveAttributes(_, _, _)
resolveAttributes(attrs, typs, enms) ==
  IF attrs = <<>> THEN [items |-> <<>>, n |-> 0, error |-> NoError]
  ELSE LET r == resolveType(Head(attrs).tsType, typs, enms)
       IN  IF r.error # NoError THEN [items |-> attrs, n |-> 0, error |-> r.error]
           ELSE LET rest == resolveAttributes(Tail(attrs), typs, enms)
                IN  [items |-> <<[Head(attrs) EXCEPT !.tsType = r.tsType]>> \o rest.items,
                     n |-> r.n + rest.n,
                     error |-> rest.error]

(* the outer loop over a collection, field naming the owner's attribute list *)
RECURSIVE resolveOwners(_, _, _, _)
resolveOwners(owners, field, typs, enms) ==
  IF owners = <<>> THEN [items |-> <<>>, n |-> 0, error |-> NoError]
  ELSE LET r == resolveAttributes(Head(owners)[field], typs, enms)
           head == [Head(owners) EXCEPT ![field] = r.items]
       IN  IF r.error # NoError
             THEN [items |-> <<head>> \o Tail(owners), n |-> 0, error |-> r.error]
             ELSE LET rest == resolveOwners(Tail(owners), field, typs, enms)
                  IN  [items |-> <<head>> \o rest.items,
                       n |-> r.n + rest.n,
                       error |-> rest.error]

(* resolveTypes(schema): the schema as mutated, the count, the error thrown *)
resolveTypes(schema) ==
  LET ty == resolveOwners(schema.types, "attributes", schema.types, schema.enums)
      ta == resolveOwners(schema.tables, "columns", schema.types, schema.enums)
      fu == resolveOwners(schema.functions, "parameters", schema.types, schema.enums)
  IN  IF ty.error # NoError
        THEN [types |-> ty.items, tables |-> schema.tables,
              functions |-> schema.functions, resolved |-> 0, error |-> ty.error]
      ELSE IF ta.error # NoError
        THEN [types |-> ty.items, tables |-> ta.items,
              functions |-> schema.functions, resolved |-> 0, error |-> ta.error]
      ELSE [types |-> ty.items, tables |-> ta.items, functions |-> fu.items,
            resolved |-> IF fu.error # NoError THEN 0 ELSE ty.n + ta.n + fu.n,
            error |-> fu.error]

(* ------------------------------------------------------------------ *)
(* inspect(), one action per awaited step                              *)
(* ------------------------------------------------------------------ *)
Schema == [enums |-> enums, types |-> types, tables |-> tables, functions |-> functions]

DiscoverEnums ==
  /\ pc = "enums"
  /\ enums' = discoverEnums(catalog)
  /\ pc' = "types"
  /\ UNCHANGED <<catalog, udts, types, tables, functions, resolved, error>>
  /\ UNCHANGED <<builderVars, fanVars>>

(* Promise.all over the callbacks: the items in listing order, or the
   rejection of a callback that threw *)
DiscoverTypes ==
  /\ pc = "types"
  /\ LET res == [i \in DOMAIN catalog.typeRows |->
                   discoverType(catalog, udts, catalog.typeRows[i])]
         failing == {i \in DOMAIN res : res[i].error # NoError}
     IN  IF failing = {}
           THEN /\ types' = [i \in DOMAIN res |-> res[i].item]
                /\ pc' = "tables"
                /\ error' = error
           ELSE /\ \E i \in failing : error' = res[i].error
                /\ pc' = "failed"
                /\ types' = types
  /\ UNCHANGED <<catalog, udts, enums, tables, functions, resolved>>
  /\ UNCHANGED <<builderVars, fanVars>>

DiscoverTables ==
  /\ pc = "tables"
  /\ LET res == [i \in DOMAIN catalog.tableRows |->
                   discoverTable(catalog, udts, catalog.tableRows[i])]
         failing == {i \in DOMAIN res : res[i].error # NoError}
     IN  IF failing = {}
           THEN /\ tables' = [i \in DOMAIN res |-> res[i].item]
                /\ pc' = "functions"
                /\ error' = error
           ELSE /\ \E i \in failing : error' = res[i].error
                /\ pc' = "failed"
                /\ tables' = tables
  /\ UNCHANGED <<catalog, udts, enums, types, functions, resolved>>
  /\ UNCHANGED <<builderVars, fanVars>>

DiscoverFunctions ==
  /\ pc = "functions"
  /\ LET res == [i \in DOMAIN catalog.routineRows |->
                   discoverFunction(catalog, udts, catalog.routineRows[i])]
         failing == {i \in DOMAIN res : res[i].error # NoError}
     IN  IF failing = {}
           THEN /\ functions' = [i \in DOMAIN res |-> res[i].item]
                /\ pc' = "resolve"
                /\ error' = error
           ELSE /\ \E i \in failing : error' = res[i].error
                /\ pc' = "failed"
                /\ functions' = functions
  /\ UNCHANGED <<catalog, udts, enums, types, tables, resolved>>
  /\ UNCHANGED <<builderVars, fanVars>>

(* resolveTypes(schema); return schema *)
ResolveTypes ==
  /\ pc = "resolve"
  /\ LET r == resolveTypes(Schema)
     IN  /\ types' = r.types
         /\ tables' = r.tables
         /\ functions' = r.functions
         /\ error' = r.error
         /\ IF r.error = NoError
              THEN resolved' = r.resolved /\ pc' = "done"
              ELSE resolved' = resolved /\ pc' = "failed"
  /\ UNCHANGED <<catalog, udts, enums>>
  /\ UNCHANGED <<builderVars, fanVars>>

(* ------------------------------------------------------------------ *)
(* Catalogs the inspector is run on                                    *)
(* ------------------------------------------------------------------ *)
MaxRows == 2
MaxAttrs == 2
MaxDepth == 2

S_sad == <<"s","a","d">>
S_ok == <<"o","k">>
S_mood_array == <<"_","m","o","o","d">>
S_int8_array == <<"_","i","n","t","8">>
S_ghost_array == <<"_","g","h","o","s","t">>
S_addr_not_null == <<"a","d","d","r","_","n","o","t","_","n","u","l","l">>
S_text_not_null == <<"t","e","x","t","_","n","o","t","_","n","u","l","l">>

DefaultUdts == [string |-> <<>>, number |-> <<>>]

EnumRows ==
  <<[name |-> S_sad, order |-> 1, enum_name |-> S_mood],
    [name |-> S_ok, order |-> 2, enum_name |-> S_mood]>>

Placements == {"attribute", "column", "parameter"}

ItemName(k) == <<"c", Digits[k + 1]>>

Ordinal(rows, k) == Cardinality({j \in 1..k : rows[j].place = rows[k].place})

(* the rows of one information_schema view, for the one owner *)
RECURSIVE PlacedRows(_, _, _, _)
PlacedRows(rows, k, place, owner) ==
  IF k > Len(rows) THEN <<>>
  ELSE (IF rows[k].place # place THEN <<>>
        ELSE IF place = "parameter"
          THEN <<[owner |-> owner, name |-> ItemName(k), order |-> Ordinal(rows, k),
                  type |-> rows[k].type, udt |-> rows[k].udt]>>
          ELSE <<[owner |-> owner, name |-> ItemName(k), order |-> Ordinal(rows, k),
                  nullable |-> rows[k].nullable,
                  type |-> rows[k].type, udt |-> rows[k].udt]>>)
       \o PlacedRows(rows, k + 1, place, owner)

(* one enum, one composite type, one table and one routine, with the rows
   placed in them *)
Catalog(rows, ret) ==
  [enumRows |-> EnumRows,
   typeRows |-> <<[name |-> S_addr]>>,
   attributeRows |-> PlacedRows(rows, 1, "attribute", S_addr),
   tableRows |-> <<[name |-> S_users]>>,
   columnRows |-> PlacedRows(rows, 1, "column", S_users),
   routineRows |-> <<[name |-> S_get_mood, type |-> ret.type, udt |-> ret.udt,
                      specific_name |-> S_get_mood]>>,
   parameterRows |-> PlacedRows(rows, 1, "parameter", S_get_mood)]

In(type, udt, nullable) == [type |-> type, udt |-> udt, nullable |-> nullable]

SmallInputs ==
  {In(S_bigint, S_int8, FALSE),
   In(S_USER_DEFINED, S_mood, TRUE),
   In(S_USER_DEFINED, S_addr_not_null, TRUE),
   In(S_ARRAY, S_mood_array, TRUE),
   In(S_USER_DEFINED, S_ghost, FALSE),
   In(S_json, S_json, TRUE)}

ReturnInputs ==
  {In(S_boolean, S_bool, FALSE),
   In(S_USER_DEFINED, S_mood, FALSE),
   In(S_json, S_json, FALSE)}

RichTypes == {S_boolean, S_bigint, S_text, S_timestamp, S_USER_DEFINED, S_ARRAY, S_json}

RichUdts ==
  {Null, EmptyStr, S_bool, S_boolean, S_int8, S_text, S_text_not_null, S_timestamptz,
   S_mood, S_mood_array, S_ghost_array, S_int8_array, S_not_null, S_ARRAY, S_json}

RichUdtOptions ==
  {[string |-> st, number |-> nu] :
     st \in {<<>>, <<S_mood>>, <<S_json, S_bigint>>}, nu \in {<<>>, <<S_mood>>}}

SmallRows ==
  UNION {[1..n -> {[place |-> p, type |-> i.type, udt |-> i.udt, nullable |-> i.nullable] :
                     p \in Placements, i \in SmallInputs}] : n \in 0..MaxRows}

BuilderIdle ==
  /\ builder = "none"
  /\ model = <<>>
  /\ transport = <<>>
  /\ thrown = NoError
  /\ last = [method |-> "none"]
  /\ chain = 0

FanIdle ==
  /\ inflight = {}
  /\ settled = <<>>
  /\ arrivals = <<>>

InitInspect ==
  /\ \/ \E rows \in SmallRows, ret \in ReturnInputs :
          /\ catalog = Catalog(rows, ret)
          /\ udts = DefaultUdts
     \/ \E p \in Placements, t \in RichTypes, u \in RichUdts, o \in RichUdtOptions :
          /\ catalog = Catalog(<<[place |-> p, type |-> t, udt |-> u, nullable |-> TRUE]>>,
                               In(S_boolean, S_bool, FALSE))
          /\ udts = o
     \/ \E t \in RichTypes, u \in RichUdts, o \in RichUdtOptions :
          /\ catalog = Catalog(<<>>, In(t, u, FALSE))
          /\ udts = o
  /\ pc = "enums"
  /\ enums = <<>>
  /\ types = <<>>
  /\ tables = <<>>
  /\ functions = <<>>
  /\ resolved = 0
  /\ error = NoError
  /\ BuilderIdle
  /\ FanIdle

NextInspect ==
  \/ DiscoverEnums
  \/ DiscoverTypes
  \/ DiscoverTables
  \/ DiscoverFunctions
  \/ ResolveTypes

SpecInspect == InitInspect /\ [][NextInspect]_vars

(* ------------------------------------------------------------------ *)
(* resolveTypes applied to any SchemaData                              *)
(* ------------------------------------------------------------------ *)
BaseTypes ==
  {T_number, T_unresolved(S_mood), T_unresolved(S_addr), T_unresolved(S_ghost),
   T_enum(snakeToPascal(S_mood))}

RECURSIVE TsTypes(_)
TsTypes(depth) ==
  IF depth = 0 THEN BaseTypes
  ELSE TsTypes(depth - 1) \cup {T_array(t) : t \in TsTypes(depth - 1)}

TypedRows ==
  UNION {[1..n -> [place : Placements, tsType : TsTypes(MaxDepth)]] : n \in 0..MaxAttrs}

RECURSIVE PlacedAttributes(_, _, _)
PlacedAttributes(rows, k, place) ==
  IF k > Len(rows) THEN <<>>
  ELSE (IF rows[k].place # place THEN <<>>
        ELSE <<[name |-> ItemName(k), order |-> Ordinal(rows, k),
                nullable |-> (k % 2 = 0), tsType |-> rows[k].tsType]>>)
       \o PlacedAttributes(rows, k + 1, place)

EmptyCatalog ==
  [enumRows |-> <<>>, typeRows |-> <<>>, attributeRows |-> <<>>, tableRows |-> <<>>,
   columnRows |-> <<>>, routineRows |-> <<>>, parameterRows |-> <<>>]

InitResolve ==
  /\ catalog = EmptyCatalog
  /\ udts = DefaultUdts
  /\ pc = "resolve"
  /\ enums = discoverEnums([enumRows |-> EnumRows])
  /\ \E rows \in TypedRows :
       /\ types = <<[name |-> S_addr, tsName |-> snakeToPascal(S_addr),
                     attributes |-> PlacedAttributes(rows, 1, "attribute")]>>
       /\ tables = <<[name |-> S_users, tsName |-> snakeToPascal(S_users),
                      columns |-> PlacedAttributes(rows, 1, "column")]>>
       /\ functions = <<[name |-> S_get_mood, returnType |-> T_boolean,
                         parameters |-> PlacedAttributes(rows, 1, "parameter")]>>
  /\ resolved = 0
  /\ error = NoError
  /\ BuilderIdle
  /\ FanIdle

SpecResolve == InitResolve /\ [][ResolveTypes]_vars

(* ------------------------------------------------------------------ *)
(* Properties of the inspector                                         *)
(* ------------------------------------------------------------------ *)
RECURSIVE HasUnresolved(_)
HasUnresolved(tsType) ==
  \/ tsType[1] = UNRESOLVED_UDT
  \/ tsType[1] = "array" /\ HasUnresolved(tsType[2])

(* the positions of the attributes, columns and parameters of a schema *)
Positions(s) ==
  UNION {{<<"types", i, k>> : k \in DOMAIN s.types[i].attributes} : i \in DOMAIN s.types}
  \cup UNION {{<<"tables", i, k>> : k \in DOMAIN s.tables[i].columns} : i \in DOMAIN s.tables}
  \cup UNION {{<<"functions", i, k>> : k \in DOMAIN s.functions[i].parameters} :
                i \in DOMAIN s.functions}

ItemAt(s, pos) ==
  IF pos[1] = "types" THEN s.types[pos[2]].attributes[pos[3]]
  ELSE IF pos[1] = "tables" THEN s.tables[pos[2]].columns[pos[3]]
  ELSE s.functions[pos[2]].parameters[pos[3]]

SchemaNext == [enums |-> enums', types |-> types', tables |-> tables', functions |-> functions']

Named(coll, name) == \E i \in DOMAIN coll : coll[i].name = name

(* C1: whenever inspect returns a schema, no type in it is the
   UNRESOLVED_UDT marker at any array depth: not in a composite attribute,
   a table column, a routine parameter or a routine return type. *)
C1_NoMarkerInReturnedSchema ==
  pc = "done" =>
    /\ \A pos \in Positions(Schema) : ~HasUnresolved(ItemAt(Schema, pos).tsType)
    /\ \A i \in DOMAIN functions : ~HasUnresolved(functions[i].returnType)

(* n nested arrays around inner *)
RECURSIVE Nested(_, _)
Nested(n, inner) == IF n = 0 THEN inner ELSE T_array(Nested(n - 1, inner))

(* the reference resolveTypes writes for the member named name *)
Reference(s, name) ==
  IF Named(s.types, name) THEN T_interface(s.types[FirstNamed(s.types, name)].tsName)
  ELSE T_enum(s.enums[FirstNamed(s.enums, name)].tsName)

(* C2: for every depth n >= 1 and every name X of an existing enum or
   composite type, a successful resolveTypes turns an attribute typed n
   nested arrays around UnresolvedUdt(X) into n nested arrays around the
   reference to X. *)
C2_NestedArraysResolved ==
  [][(pc = "resolve" /\ pc' = "done") =>
       \A pos \in Positions(Schema), n \in 1..MaxDepth, X \in {S_mood, S_addr} :
         (ItemAt(Schema, pos).tsType = Nested(n, T_unresolved(X)))
           => ItemAt(SchemaNext, pos).tsType = Nested(n, Reference(Schema, X))]_vars

(* the names resolveTypes meets as UnresolvedUdt(n) or Array(UnresolvedUdt(n))
   that name no composite type and no enum *)
MissingNames(s) ==
  {n \in {ItemAt(s, pos).tsType[2] : pos \in {q \in Positions(s) :
                                         ItemAt(s, q).tsType[1] = UNRESOLVED_UDT}}
         \cup {ItemAt(s, pos).tsType[2][2] : pos \in {q \in Positions(s) :
                   /\ ItemAt(s, q).tsType[1] = "array"
                   /\ ItemAt(s, q).tsType[2][1] = UNRESOLVED_UDT}} :
     ~Named(s.types, n) /\ ~Named(s.enums, n)}

(* C3: if an attribute, column or parameter is typed UnresolvedUdt(n) or
   Array(UnresolvedUdt(n)) and n names no composite type and no enum,
   resolveTypes raises an error naming such an n (n itself when it is the
   only missing name) and inspect returns no schema. *)
C3_MissingReferenceRaises ==
  [][(pc = "resolve" /\ MissingNames(Schema) # {}) =>
       /\ pc' = "failed"
       /\ error' \in {CantResolveError(n) : n \in MissingNames(Schema)}]_vars

C3_Witness ==
  /\ pc = "failed"
  /\ error = CantResolveError(S_ghost)
  /\ \E pos \in Positions(Schema) :
       ItemAt(Schema, pos).tsType = T_array(T_unresolved(S_ghost))

(* the type is one resolveTypes takes for unresolved *)
IsUnresolved(tsType) ==
  \/ tsType[1] = UNRESOLVED_UDT
  \/ tsType[1] = "array" /\ tsType[2][1] = UNRESOLVED_UDT

SameButTypes(a, b) ==
  a.name = b.name /\ a.order = b.order /\ a.nullable = b.nullable

(* C4: a successful resolveTypes returns the number of attributes, columns
   and parameters typed UnresolvedUdt or Array(UnresolvedUdt) before the
   pass, changes the type of those only, and keeps membership, order, names,
   ordinals and nullability; on a schema with no marker it changes nothing
   and returns 0. *)
C4_CountAndFrame ==
  [][(pc = "resolve" /\ pc' = "done") =>
       /\ resolved' = Cardinality({pos \in Positions(Schema) :
                                     IsUnresolved(ItemAt(Schema, pos).tsType)})
       /\ Positions(SchemaNext) = Positions(Schema)
       /\ \A pos \in Positions(Schema) :
            /\ SameButTypes(ItemAt(Schema, pos), ItemAt(SchemaNext, pos))
            /\ IsUnresolved(ItemAt(Schema, pos).tsType)
                 => ~IsUnresolved(ItemAt(SchemaNext, pos).tsType)
            /\ ~IsUnresolved(ItemAt(Schema, pos).tsType)
                 => ItemAt(SchemaNext, pos).tsType = ItemAt(Schema, pos).tsType
       /\ enums' = enums
       /\ \A i \in DOMAIN types :
            types'[i].name = types[i].name /\ types'[i].tsName = types[i].tsName
       /\ \A i \in DOMAIN tables :
            tables'[i].name = tables[i].name /\ tables'[i].tsName = tables[i].tsName
       /\ \A i \in DOMAIN functions :
            /\ functions'[i].name = functions[i].name
            /\ functions'[i].returnType = functions[i].returnType
       /\ (\A pos \in Positions(Schema) : ~HasUnresolved(ItemAt(Schema, pos).tsType))
            => SchemaNext = Schema /\ resolved' = 0]_vars

C4_Witness ==
  /\ pc = "done"
  /\ resolved = 2
  /\ \E pos \in Positions(Schema) :
       ItemAt(Schema, pos).tsType = T_array(T_interface(snakeToPascal(S_addr)))

(* the catalog rows behind the items of a collection, by position *)
RowsOf(coll, i) ==
  IF coll = "types"
    THEN SelectRows(catalog.attributeRows, "owner", catalog.typeRows[i].name)
  ELSE IF coll = "tables"
    THEN SelectRows(catalog.columnRows, "owner", catalog.tableRows[i].name)
  ELSE SelectRows(catalog.parameterRows, "owner", catalog.routineRows[i].specific_name)

ListingOf(coll) ==
  IF coll = "types" THEN catalog.typeRows
  ELSE IF coll = "tables" THEN catalog.tableRows
  ELSE catalog.routineRows

CatalogPositions(coll) ==
  UNION {{<<coll, i, k>> : k \in DOMAIN RowsOf(coll, i)} : i \in DOMAIN ListingOf(coll)}

RowAt(pos) == RowsOf(pos[1], pos[2])[pos[3]]

(* the underlying name the code hands to deduceType for the item *)
HandedUdt(pos) ==
  IF pos[1] = "functions" THEN RowAt(pos).udt
  ELSE stripArrayPrefix(stripNotNull(RowAt(pos).udt))

(* the steps of inspect after which a collection has been discovered *)
Discovered(coll) ==
  IF coll = "types" THEN pc \in {"tables", "functions", "resolve"}
  ELSE IF coll = "tables" THEN pc \in {"functions", "resolve"}
  ELSE pc = "resolve"

Collections == {"types", "tables", "functions"}

(* C5 as stated: a raw type not in the numeric allow-list and in the string
   allow-list always deduces to String. *)
C5_AllowListedStringAlways ==
  \A coll \in Collections :
    Discovered(coll) =>
      \A pos \in CatalogPositions(coll) :
        (~includes(udts.number, RowAt(pos).type) /\ includes(udts.string, RowAt(pos).type))
          => ItemAt(Schema, pos).tsType = T_string

(* the rules of type deduction, each on its own *)
RuleBoolean(type, udt) == type = S_boolean \/ udt = S_boolean

RuleNumber(type, udt, u) ==
  \/ type \in NumberTypes \/ udt \in NumberTypes
  \/ includes(u.number, type) \/ includes(u.number, udt)

RuleString(type, udt, u) ==
  \/ type \in StringTypes \/ udt \in StringTypes
  \/ includes(u.string, type) \/ includes(u.string, udt)

RuleDate(type, udt) == type \in KnownDateTypes \/ udt \in KnownDateTypes

RuleUserDefined(type) == type = S_USER_DEFINED

RuleArray(type, udt) == type = S_ARRAY /\ udt # Null

(* C5 (amended): a raw type in the string allow-list deduces to String,
   never Number, when neither name is boolean, a known numeric type name or
   in the numeric allow-list. *)
C5_AllowListedString ==
  \A coll \in Collections :
    Discovered(coll) =>
      \A pos \in CatalogPositions(coll) :
        (/\ ~includes(udts.number, RowAt(pos).type)
         /\ includes(udts.string, RowAt(pos).type)
         /\ ~RuleBoolean(RowAt(pos).type, HandedUdt(pos))
         /\ ~RuleNumber(RowAt(pos).type, HandedUdt(pos), udts))
          => ItemAt(Schema, pos).tsType = T_string

C5_Witness ==
  /\ pc = "resolve"
  /\ \E pos \in CatalogPositions("tables") :
       /\ RowAt(pos).type = S_json
       /\ HandedUdt(pos) = S_timestamptz
       /\ includes(udts.string, S_json)
       /\ ItemAt(Schema, pos).tsType = T_string

(* the type of the first rule that matches, NoType when none does *)
RECURSIVE RuleType(_, _, _)
RuleType(type, udt, u) ==
  CASE RuleBoolean(type, udt) -> T_boolean
    [] ~RuleBoolean(type, udt) /\ RuleNumber(type, udt, u) -> T_number
    [] ~RuleBoolean(type, udt) /\ ~RuleNumber(type, udt, u) /\ RuleString(type, udt, u)
         -> T_string
    [] /\ ~RuleBoolean(type, udt) /\ ~RuleNumber(type, udt, u)
       /\ ~RuleString(type, udt, u) /\ RuleDate(type, udt) -> T_Date
    [] /\ ~RuleBoolean(type, udt) /\ ~RuleNumber(type, udt, u)
       /\ ~RuleString(type, udt, u) /\ ~RuleDate(type, udt)
       /\ RuleUserDefined(type) -> T_unresolved(udt)
    [] /\ ~RuleBoolean(type, udt) /\ ~RuleNumber(type, udt, u)
       /\ ~RuleString(type, udt, u) /\ ~RuleDate(type, udt)
       /\ ~RuleUserDefined(type) /\ RuleArray(type, udt)
         -> T_array(IF RuleType(udt, Null, u) = NoType
                      THEN T_unresolved(udt) ELSE RuleType(udt, Null, u))
    [] OTHER -> NoType

(* C6: every discovered attribute, column, parameter and return type has
   the type of the first matching rule in the order Boolean, Number, String,
   Date, UnresolvedUdt, Array, and none is dropped; when an item matches no
   rule, inspect fails at the discovery of its collection and returns no
   schema. *)
C6_FirstRuleOrError ==
  \A coll \in Collections :
    /\ Discovered(coll) =>
         /\ {pos \in Positions(Schema) : pos[1] = coll} = CatalogPositions(coll)
         /\ \A pos \in CatalogPositions(coll) :
              ItemAt(Schema, pos).tsType = RuleType(RowAt(pos).type, HandedUdt(pos), udts)
         /\ coll = "functions" =>
              \A i \in DOMAIN functions :
                functions[i].returnType =
                  RuleType(catalog.routineRows[i].type, catalog.routineRows[i].udt, udts)
    /\ (\/ \E pos \in CatalogPositions(coll) :
             RuleType(RowAt(pos).type, HandedUdt(pos), udts) = NoType
        \/ /\ coll = "functions"
           /\ \E i \in DOMAIN catalog.routineRows :
                RuleType(catalog.routineRows[i].type, catalog.routineRows[i].udt, udts)
                  = NoType)
         => /\ ~Discovered(coll)
            /\ pc # "done"
            /\ pc = "failed" => error[1] = "Unhandled type"

C6_Witness ==
  /\ pc = "resolve"
  /\ \E pos \in CatalogPositions("tables") :
       /\ RowAt(pos).type = S_USER_DEFINED
       /\ HandedUdt(pos) = S_timestamptz
       /\ ItemAt(Schema, pos).tsType = T_Date

HasNotNullSuffix(udt) ==
  /\ udt # Null
  /\ Len(udt) >= Len(S_not_null)
  /\ \A j \in 1..Len(S_not_null) : udt[Len(udt) - Len(S_not_null) + j] = S_not_null[j]

(* C7: every attribute, column and routine parameter is deduced from the
   underlying name with the not-null suffix and the leading array marker
   removed, and is not nullable when the suffix was there. *)
C7_NormalizedBeforeDeduction ==
  \A coll \in Collections :
    Discovered(coll) =>
      \A pos \in CatalogPositions(coll) :
        /\ ItemAt(Schema, pos).tsType =
             deduceType(RowAt(pos).type, stripArrayPrefix(stripNotNull(RowAt(pos).udt)), udts)
        /\ HasNotNullSuffix(RowAt(pos).udt) => ItemAt(Schema, pos).nullable = FALSE

(* ------------------------------------------------------------------ *)
(* The fluent client (dbTransport.ts)                                  *)
(*                                                                     *)
(* A JS object is a function from the keys it has; a key that is not   *)
(* there reads as undefined.  Arguments and values are strings, with   *)
(* Undefined for a missing argument.  A columns argument is tagged     *)
(* with what Array.isArray says of it.                                 *)
(* ------------------------------------------------------------------ *)
MaxChain == 3

Undefined == "<undefined>"

Has(obj, key) == key \in DOMAIN obj

Put(obj, key, val) == [k \in DOMAIN obj \cup {key} |-> IF k = key THEN val ELSE obj[k]]

Get(obj, key) == IF key \in DOMAIN obj THEN obj[key] ELSE Undefined

Str(s) == [isArray |-> FALSE, str |-> s]
Arr(items) == [isArray |-> TRUE, items |-> items]

unaryOperators == <<"is null", "is not null">>

binaryOperators == <<"=", ">", "<", ">=", "<=">>

isUnaryOperator(o) == includes(unaryOperators, o)

isBinaryOperator(o) == includes(binaryOperators, o)

InvalidOrderByError(direction) == <<"Invalid orderBy direction", direction>>

(* where taking any binary operator as one, whether or not a value came *)
where_noValueTest(column, query, operator, value) ==
  LET conditions == IF Has(query, "conditions") THEN query["conditions"] ELSE <<>>
      condition ==
        IF isBinaryOperator(operator)
          THEN [column |-> column, arity |-> 2, operator |-> operator, value |-> value]
        ELSE IF isUnaryOperator(operator)
          THEN [column |-> column, arity |-> 1, operator |-> operator]
        ELSE [column |-> column, arity |-> 2, operator |-> "=", value |-> operator]
  IN  Put(query, "conditions", Append(conditions, condition))

(* where keeping whatever operator it is given in the last case *)
where_operatorKept(column, query, operator, value) ==
  LET conditions == IF Has(query, "conditions") THEN query["conditions"] ELSE <<>>
      condition ==
        IF value # Undefined /\ isBinaryOperator(operator)
          THEN [column |-> column, arity |-> 2, operator |-> operator, value |-> value]
        ELSE IF isUnaryOperator(operator)
          THEN [column |-> column, arity |-> 1, operator |-> operator]
        ELSE [column |-> column, arity |-> 2, operator |-> operator, value |-> value]
  IN  Put(query, "conditions", Append(conditions, condition))

(* where(column, query, operator, value): the query after the push *)
where(column, query, operator, value) ==
  LET conditions == IF Has(query, "conditions") THEN query["conditions"] ELSE <<>>
      condition ==
        IF value # Undefined /\ isBinaryOperator(operator)
          THEN [column |-> column, arity |-> 2, operator |-> operator, value |-> value]
        ELSE IF isUnaryOperator(operator)
          THEN [column |-> column, arity |-> 1, operator |-> operator]
        ELSE [column |-> column, arity |-> 2, operator |-> "=", value |-> operator]
  IN  Put(query, "conditions", Append(conditions, condition))

(* orderBy letting a missing direction default to "asc" *)
orderBy_defaultAsc(query, columns, direction) ==
  IF direction # Undefined /\ direction # "asc" /\ direction # "desc"
    THEN [query |-> query, thrown |-> InvalidOrderByError(direction)]
    ELSE [query |-> Put(query, "orderBy",
                        [columns |-> columns,
                         direction |-> IF direction \in {Undefined, ""}
                                         THEN "asc" ELSE direction]),
          thrown |-> NoError]

(* SelectBuilder.orderBy: the query after the call and the error thrown *)
orderBy(query, columns, direction) ==
  IF direction # "asc" /\ direction # "desc"
    THEN [query |-> query, thrown |-> InvalidOrderByError(direction)]
    ELSE [query |-> Put(query, "orderBy",
                        [columns |-> columns,
                         direction |-> IF direction \in {Undefined, ""}
                                         THEN "asc" ELSE direction]),
          thrown |-> NoError]

(* returning adding the columns to the set already there *)
returning_appending(command, columns) ==
  Put(command, "returning",
      (IF Has(command, "returning") THEN command["returning"] ELSE <<>>)
        \o (IF columns.isArray THEN columns.items ELSE <<columns.str>>))

(* returning of the Insert, Update and Delete builders *)
returning(command, columns) ==
  Put(command, "returning",
      IF ~columns.isArray /\ columns.str = "*" THEN <<"*">>
      ELSE IF columns.isArray THEN columns.items ELSE columns.str)

(* the ApiTransport method each builder's terminal method calls *)
terminalOperation(b) ==
  IF b = "SelectBuilder" THEN "select"
  ELSE IF b = "InsertBuilder" THEN "insert"
  ELSE IF b = "UpdateBuilder" THEN "update"
  ELSE IF b = "DeleteBuilder" THEN "update"
  ELSE "none"

(* the schema ApiClient.create builds the client from *)
ClientTable == "users"
ClientFunction == "get_mood"

ColumnArgs == {Str("*"), Arr(<<"id">>), Arr(<<"id", "status">>)}
WhereColumns == {"status"}
WhereOperands == {"=", ">", "is null", "active", Undefined}
WhereValues == {"x", Undefined}
LimitArgs == {0, 10}
OffsetArgs == {5}
OrderColumns == {<<"id">>}
Directions == {"asc", "desc", "ascending", Undefined}
Replies == {"rows1", "rows2"}
CallArgs == {<<>>, <<"x">>}

(* the record of a call: its arguments, what it returned, and the query and
   the transport's calls as they were before it *)
Call(method, args, returned) ==
  [method |-> method, args |-> args, returned |-> returned,
   before |-> model, calls |-> transport]

Builders == {"SelectBuilder", "InsertBuilder", "UpdateBuilder", "DeleteBuilder"}

(* ClientTableApi.select -> new SelectBuilder *)
TableSelect ==
  /\ builder = "none"
  /\ \E columns \in ColumnArgs :
       /\ builder' = "SelectBuilder"
       /\ model' = IF columns.isArray
                     THEN Put([table |-> ClientTable], "selected", columns.items)
                     ELSE [table |-> ClientTable]
       /\ last' = Call("select", [columns |-> columns], "builder")
  /\ thrown' = NoError
  /\ UNCHANGED <<transport, chain>>
  /\ UNCHANGED <<inspectVars, fanVars>>

(* ClientTableApi.insert / update / delete -> new builder *)
TableCommand ==
  /\ builder = "none"
  /\ \E b \in {"InsertBuilder", "UpdateBuilder", "DeleteBuilder"} :
       /\ builder' = b
       /\ model' = [table |-> ClientTable]
       /\ last' = Call(IF b = "InsertBuilder" THEN "insert"
                       ELSE IF b = "UpdateBuilder" THEN "update" ELSE "delete",
                       <<>>, "builder")
  /\ thrown' = NoError
  /\ UNCHANGED <<transport, chain>>
  /\ UNCHANGED <<inspectVars, fanVars>>

Where ==
  /\ builder \in {"SelectBuilder", "UpdateBuilder", "DeleteBuilder"}
  /\ chain < MaxChain
  /\ \E column \in WhereColumns, operator \in WhereOperands, value \in WhereValues :
       /\ model' = where(column, model, operator, value)
       /\ last' = Call("where",
                       [column |-> column, operator |-> operator, value |-> value],
                       "this")
  /\ thrown' = NoError
  /\ chain' = chain + 1
  /\ UNCHANGED <<builder, transport>>
  /\ UNCHANGED <<inspectVars, fanVars>>

Limit ==
  /\ builder = "SelectBuilder"
  /\ chain < MaxChain
  /\ \E n \in LimitArgs :
       /\ model' = Put(model, "limit", n)
       /\ last' = Call("limit", [n |-> n], "this")
  /\ thrown' = NoError
  /\ chain' = chain + 1
  /\ UNCHANGED <<builder, transport>>
  /\ UNCHANGED <<inspectVars, fanVars>>

Offset ==
  /\ builder = "SelectBuilder"
  /\ chain < MaxChain
  /\ \E n \in OffsetArgs :
       /\ model' = Put(model, "offset", n)
       /\ last' = Call("offset", [n |-> n], "this")
  /\ thrown' = NoError
  /\ chain' = chain + 1
  /\ UNCHANGED <<builder, transport>>
  /\ UNCHANGED <<inspectVars, fanVars>>

OrderBy ==
  /\ builder = "SelectBuilder"
  /\ chain < MaxChain
  /\ \E columns \in OrderColumns, direction \in Directions :
       LET r == orderBy(model, columns, direction)
       IN  /\ model' = r.query
           /\ thrown' = r.thrown
           /\ last' = Call("orderBy", [columns |-> columns, direction |-> direction],
                           IF r.thrown = NoError THEN "this" ELSE Undefined)
  /\ chain' = chain + 1
  /\ UNCHANGED <<builder, transport>>
  /\ UNCHANGED <<inspectVars, fanVars>>

Returning ==
  /\ builder \in {"InsertBuilder", "UpdateBuilder", "DeleteBuilder"}
  /\ chain < MaxChain
  /\ \E columns \in {Str("*"), Arr(<<"id">>)} :
       /\ model' = returning(model, columns)
       /\ last' = Call("returning", [columns |-> columns], "this")
  /\ thrown' = NoError
  /\ chain' = chain + 1
  /\ UNCHANGED <<builder, transport>>
  /\ UNCHANGED <<inspectVars, fanVars>>

(* fetch() of the select builder, execute() of the others: the transport is
   handed the model and its reply is returned *)
Terminal ==
  /\ builder \in Builders
  /\ chain < MaxChain
  /\ \E reply \in Replies :
       /\ transport' = Append(transport, [op |-> terminalOperation(builder),
                                          arg |-> model, reply |-> reply])
       /\ last' = Call(IF builder = "SelectBuilder" THEN "fetch" ELSE "execute",
                       <<>>, reply)
  /\ thrown' = NoError
  /\ chain' = chain + 1
  /\ UNCHANGED <<builder, model>>
  /\ UNCHANGED <<inspectVars, fanVars>>

(* the callable functionApi makes for a routine *)
CallFunction ==
  /\ chain < MaxChain
  /\ \E parameters \in CallArgs, reply \in Replies :
       /\ transport' = Append(transport,
                              [op |-> "call",
                               arg |-> [procedure |-> ClientFunction,
                                        parameters |-> parameters],
                               reply |-> reply])
       /\ last' = Call("call", [parameters |-> parameters], reply)
  /\ thrown' = NoError
  /\ chain' = chain + 1
  /\ UNCHANGED <<builder, model>>
  /\ UNCHANGED <<inspectVars, fanVars>>

InspectIdle ==
  /\ catalog = EmptyCatalog
  /\ udts = DefaultUdts
  /\ pc = "idle"
  /\ enums = <<>>
  /\ types = <<>>
  /\ tables = <<>>
  /\ functions = <<>>
  /\ resolved = 0
  /\ error = NoError
  /\ FanIdle

InitBuilder == InspectIdle /\ BuilderIdle

NextBuilder ==
  \/ TableSelect
  \/ TableCommand
  \/ Where
  \/ Limit
  \/ Offset
  \/ OrderBy
  \/ Returning
  \/ Terminal
  \/ CallFunction

SpecBuilder == InitBuilder /\ [][NextBuilder]_vars

(* ------------------------------------------------------------------ *)
(* Properties of the fluent client                                     *)
(* ------------------------------------------------------------------ *)
(* the ApiTransport method that matches the kind of the call *)
MatchingOperation ==
  IF last.method = "call" THEN "call"
  ELSE IF builder = "SelectBuilder" THEN "select"
  ELSE IF builder = "InsertBuilder" THEN "insert"
  ELSE IF builder = "UpdateBuilder" THEN "update"
  ELSE "delete"

(* C8: a terminal call invokes exactly one transport operation, the one of
   the builder's kind, with the builder's current model, returns the
   transport's result and leaves the model as it was. *)
C8_TerminalInvokesMatchingOperation ==
  last.method \in {"fetch", "execute", "call"} =>
    /\ Len(transport) = Len(last.calls) + 1
    /\ SubSeq(transport, 1, Len(last.calls)) = last.calls
    /\ transport[Len(transport)].op = MatchingOperation
    /\ last.method # "call" => transport[Len(transport)].arg = last.before
    /\ last.method = "call" =>
         transport[Len(transport)].arg =
           [procedure |-> ClientFunction, parameters |-> last.args.parameters]
    /\ last.returned = transport[Len(transport)].reply
    /\ model = last.before

ConditionsOf(q) == IF Has(q, "conditions") THEN q["conditions"] ELSE <<>>

Unary(column, operator) == [column |-> column, arity |-> 1, operator |-> operator]

Binary(column, operator, value) ==
  [column |-> column, arity |-> 2, operator |-> operator, value |-> value]

AppendsOne ==
  /\ Len(ConditionsOf(model)) = Len(ConditionsOf(last.before)) + 1
  /\ SubSeq(ConditionsOf(model), 1, Len(ConditionsOf(last.before)))
       = ConditionsOf(last.before)
  /\ last.returned = "this"

Appended == ConditionsOf(model)[Len(ConditionsOf(model))]

(* C9 as stated: each where call appends one condition and returns the
   builder; where(column, value) appends Binary{column, =, value} for every
   value, where(column, unaryOperator) Unary{column, operator},
   where(column, binaryOperator, value) Binary{column, operator, value}. *)
C9_WhereAppendsForEveryValue ==
  last.method = "where" =>
    /\ AppendsOne
    /\ last.args.value = Undefined =>
         Appended = Binary(last.args.column, "=", last.args.operator)
    /\ (last.args.value = Undefined /\ isUnaryOperator(last.args.operator)) =>
         Appended = Unary(last.args.column, last.args.operator)
    /\ isBinaryOperator(last.args.operator) /\ last.args.value # Undefined =>
         Appended = Binary(last.args.column, last.args.operator, last.args.value)

(* C9 (amended): where(column, value) appends Binary{column, =, value} for
   every value but the two unary operator strings, which append
   Unary{column, operator}; where(column, binaryOperator, value) appends
   Binary{column, operator, value} for every value but undefined. *)
C9_WhereAppends ==
  last.method = "where" =>
    /\ AppendsOne
    /\ (last.args.value = Undefined /\ ~isUnaryOperator(last.args.operator)) =>
         Appended = Binary(last.args.column, "=", last.args.operator)
    /\ (last.args.value = Undefined /\ isUnaryOperator(last.args.operator)) =>
         Appended = Unary(last.args.column, last.args.operator)
    /\ isBinaryOperator(last.args.operator) /\ last.args.value # Undefined =>
         Appended = Binary(last.args.column, last.args.operator, last.args.value)

C9_Witness ==
  /\ last.method = "where"
  /\ builder = "DeleteBuilder"
  /\ ConditionsOf(model) =
       <<Binary("status", ">", "x"), Binary("status", "=", "active"),
         Unary("status", "is null")>>

(* C10: orderBy with a direction other than "asc" and "desc" throws at the
   call, invokes no transport operation and leaves the query, its previous
   ordering included, as it was. *)
C10_InvalidDirectionThrows ==
  (last.method = "orderBy" /\ last.args.direction \notin {"asc", "desc"}) =>
    /\ thrown # NoError
    /\ transport = last.calls
    /\ model = last.before

C10_Witness ==
  /\ last.method = "orderBy"
  /\ last.args.direction = "ascending"
  /\ thrown = InvalidOrderByError("ascending")
  /\ Has(model, "orderBy")
  /\ model["orderBy"].direction = "desc"

(* the fields the setters write *)
SetterFields == {"limit", "offset", "orderBy", "returning"}

SameField(f) ==
  /\ Has(model, f) = Has(last.before, f)
  /\ Has(model, f) => model[f] = last.before[f]

(* C11: limit and offset hold the argument of the last limit / offset call,
   orderBy the columns and direction of the last successful orderBy call and
   returning the set of the last returning call, "*" stored as <<"*">>: each
   setter replaces its own field and leaves every other field of the model
   as it was, a failed orderBy leaves the whole model, and every other call
   leaves the four fields as they were (absent on a new builder). *)
C11_SettersReplace ==
  /\ last.method = "limit" => model = Put(last.before, "limit", last.args.n)
  /\ last.method = "offset" => model = Put(last.before, "offset", last.args.n)
  /\ (last.method = "orderBy" /\ thrown = NoError) =>
       model = Put(last.before, "orderBy",
                   [columns |-> last.args.columns, direction |-> last.args.direction])
  /\ (last.method = "orderBy" /\ thrown # NoError) => model = last.before
  /\ last.method = "returning" =>
       model = Put(last.before, "returning",
                   IF last.args.columns.isArray THEN last.args.columns.items
                                                ELSE <<"*">>)
  /\ last.method \in {"where", "fetch", "execute", "call"} =>
       \A f \in SetterFields : SameField(f)
  /\ last.method \in {"select", "insert", "update", "delete"} =>
       \A f \in SetterFields : ~Has(model, f)

C11_Witness ==
  /\ last.method = "returning"
  /\ Has(last.before, "returning")
  /\ last.before["returning"] = <<"*">>
  /\ model["returning"] = <<"id">>
  /\ Len(ConditionsOf(model)) = 1

(* ------------------------------------------------------------------ *)
(* SqlGenerator                                                        *)
(* ------------------------------------------------------------------ *)
(* The SQL text is kept as the sequence of the pieces it is concatenated
   from, each with the way it came into the text: a piece of the template
   or a string literal of the generator, the result of one of pg-promise's
   formatting functions on an argument, the text of a value the generator
   computed, or a field of the query interpolated as it is. *)
Lit(s) == [lit |-> s]

format_name(x) == [name |-> x]

format_number(n) == [number |-> n]

format_value(v) == [value |-> v]

Computed(s) == [computed |-> s]

Interpolated(x) == [raw |-> x]

(* the line break and indentation between the lines of the template *)
NL == "\n      "

(* Array.prototype.join on pieces *)
RECURSIVE join(_, _)
join(items, sep) ==
  IF items = <<>> THEN <<>>
  ELSE IF Len(items) = 1 THEN items[1]
  ELSE items[1] \o <<Lit(sep)>> \o join(Tail(items), sep)

(* generateCondition putting a space between the operator and the value *)
generateCondition_spaced(condition) ==
  IF condition.arity = 1
    THEN <<format_name(condition.column), Lit(" "), Interpolated(condition.operator)>>
    ELSE <<format_name(condition.column), Lit(" "), Interpolated(condition.operator),
           Lit(" "), format_value(Get(condition, "value"))>>

(* SqlGenerator.generateCondition *)
generateCondition(condition) ==
  IF condition.arity = 1
    THEN <<format_name(condition.column), Lit(" "), Interpolated(condition.operator)>>
    ELSE <<format_name(condition.column), Lit(" "), Interpolated(condition.operator),
           format_value(Get(condition, "value"))>>

(* SqlGenerator.select: the template with its six interpolations *)
select(q) ==
  LET columns ==
        IF Has(q, "selected")
          THEN join([i \in DOMAIN q["selected"] |-> <<format_name(q["selected"][i])>>], ",")
          ELSE <<Lit("*")>>
      wher ==
        IF ~Has(q, "conditions") THEN "undefined"
        ELSE IF Len(q["conditions"]) > 0 THEN "true" ELSE "false"
      conditions ==
        IF Has(q, "conditions")
          THEN join([i \in DOMAIN q["conditions"] |-> generateCondition(q["conditions"][i])],
                    " and ")
          ELSE <<>>
      limit ==
        IF Has(q, "limit") /\ q["limit"] # 0
          THEN <<Lit("limit "), format_number(q["limit"])>> ELSE <<>>
      offset ==
        IF Has(q, "offset") /\ q["offset"] # 0
          THEN <<Lit("offset "), format_number(q["offset"])>> ELSE <<>>
      ordering ==
        IF ~Has(q, "orderBy") THEN <<>>
        ELSE <<Lit("order by ")>>
             \o join([i \in DOMAIN q["orderBy"].columns |->
                        <<format_name(q["orderBy"].columns[i])>>], ", ")
             \o <<Interpolated(q["orderBy"].direction)>>
  IN  <<Lit(NL), Lit("select ")>> \o columns
      \o <<Lit(NL), Lit("from "), Interpolated(q["table"])>>
      \o <<Lit(NL), Computed(wher), Lit(" ")>> \o conditions
      \o <<Lit(NL)>> \o limit
      \o <<Lit(NL)>> \o offset
      \o <<Lit(NL)>> \o ordering
      \o <<Lit("\n    ")>>

(* the queries the generator is given *)
MaxConditions == 2

Absent == [has |-> FALSE]

Present(v) == [has |-> TRUE, v |-> v]

With(q, key, opt) == IF opt.has THEN Put(q, key, opt.v) ELSE q

RenderedConditions ==
  {[column |-> "status", arity |-> 2, operator |-> "=", value |-> "active"],
   [column |-> "deleted_at", arity |-> 1, operator |-> "is null"],
   [column |-> "id", arity |-> 2, operator |-> ">=", value |-> "7"]}

SelectQueries ==
  {With(With(With(With(With([table |-> ClientTable], "selected", s), "conditions", c),
                  "limit", l), "offset", o), "orderBy", ob) :
     s \in {Absent, Present(<<"id">>), Present(<<"id", "status">>)},
     c \in {Absent} \cup {Present(cs) :
              cs \in UNION {[1..n -> RenderedConditions] : n \in 0..MaxConditions}},
     l \in {Absent, Present(0), Present(10)},
     o \in {Absent, Present(0), Present(5)},
     ob \in {Absent, Present([columns |-> <<"id">>, direction |-> "asc"]),
             Present([columns |-> <<"status", "id">>, direction |-> "desc"])}}

(* generator.select(query) *)
RenderSelect ==
  /\ last.method = "none"
  /\ last' = Call("SqlGenerator.select", [select |-> model], select(model))
  /\ UNCHANGED <<builder, model, transport, thrown, chain>>
  /\ UNCHANGED <<inspectVars, fanVars>>

InitRender ==
  /\ InspectIdle
  /\ builder = "none"
  /\ model \in SelectQueries
  /\ transport = <<>>
  /\ thrown = NoError
  /\ last = [method |-> "none"]
  /\ chain = 0

SpecRender == InitRender /\ [][RenderSelect]_vars

(* ------------------------------------------------------------------ *)
(* Properties of the rendered text                                     *)
(* ------------------------------------------------------------------ *)
Rendered == last.method = "SqlGenerator.select"

HasPiece(text, p) == \E i \in DOMAIN text : text[i] = p

(* the places of a keyword of the template in the text *)
Clause(text, keyword) == {i \in DOMAIN text : text[i] \in {Lit(keyword), Lit(keyword \o " ")}}

(* the keyword is in the text and the pieces follow it *)
ClauseWith(text, keyword, pieces) ==
  \E i \in Clause(text, keyword) :
    /\ i + Len(pieces) <= Len(text)
    /\ SubSeq(text, i + 1, i + Len(pieces)) = pieces

RenderedConditionList(q) ==
  join([i \in DOMAIN q["conditions"] |-> generateCondition(q["conditions"][i])], " and ")

RenderedNames(columns, sep) ==
  join([i \in DOMAIN columns |-> <<format_name(columns[i])>>], sep)

(* C12: the text select renders has the keyword where followed by the
   conditions joined with and exactly when the query has at least one
   condition, a limit clause exactly when limit is defined and not zero, an
   offset clause exactly when offset is defined and not zero, and an order by
   clause exactly when an ordering was set. *)
C12_ClausesWhenSet ==
  Rendered =>
    LET q == last.args.select
        text == last.returned
    IN  /\ IF Has(q, "conditions") /\ Len(q["conditions"]) > 0
             THEN ClauseWith(text, "where", RenderedConditionList(q))
             ELSE Clause(text, "where") = {}
        /\ IF Has(q, "limit") /\ q["limit"] # 0
             THEN ClauseWith(text, "limit", <<format_number(q["limit"])>>)
             ELSE Clause(text, "limit") = {}
        /\ IF Has(q, "offset") /\ q["offset"] # 0
             THEN ClauseWith(text, "offset", <<format_number(q["offset"])>>)
             ELSE Clause(text, "offset") = {}
        /\ IF Has(q, "orderBy")
             THEN ClauseWith(text, "order by", RenderedNames(q["orderBy"].columns, ", "))
             ELSE Clause(text, "order by") = {}

(* C13: every token of the text that comes from the query came through a
   formatting function: the table name, the selected columns, the condition
   columns and the order-by columns through format.name, the condition
   values and the numbers through format.value / format.number, and no field
   of the query, operator and direction included, is interpolated as it is. *)
C13_OnlyThroughPrimitives ==
  Rendered =>
    LET q == last.args.select
        text == last.returned
    IN  /\ \A i \in DOMAIN text : ~Has(text[i], "raw")
        /\ HasPiece(text, format_name(q["table"]))
        /\ Has(q, "selected") =>
             \A k \in DOMAIN q["selected"] : HasPiece(text, format_name(q["selected"][k]))
        /\ Has(q, "conditions") =>
             \A k \in DOMAIN q["conditions"] :
               /\ HasPiece(text, format_name(q["conditions"][k].column))
               /\ q["conditions"][k].arity = 2 =>
                    HasPiece(text, format_value(q["conditions"][k].value))

(* the number of tokens of a condition: column, space, operator and, for
   arity 2, value *)
Width(c) == IF c.arity = 1 THEN 3 ELSE 4

(* where the k-th condition starts, counted from the first *)
RECURSIVE StartOf(_, _)
StartOf(cs, k) == IF k = 1 THEN 0 ELSE StartOf(cs, k - 1) + Width(cs[k - 1]) + 1

(* the piece is the operator, written as it is *)
IsOperator(p, operator) == p \in {Interpolated(operator), Lit(operator)}

(* C14: every condition of arity 2 is rendered as the quoted column, a
   space, the operator and the formatted value, every condition of arity 1
   as the quoted column, a space and the operator with no value after it;
   the conditions are in the text in the order of the list, with and
   between them. *)
C14_ConditionsRendered ==
  (Rendered /\ Has(last.args.select, "conditions")) =>
    LET cs == last.args.select["conditions"]
        text == last.returned
        first == 2 + CHOOSE i \in DOMAIN text : Has(text[i], "computed")
    IN  \A k \in DOMAIN cs :
          LET at == first + StartOf(cs, k)
          IN  /\ at + Width(cs[k]) <= Len(text)
              /\ text[at] = format_name(cs[k].column)
              /\ text[at + 1] = Lit(" ")
              /\ IsOperator(text[at + 2], cs[k].operator)
              /\ cs[k].arity = 2 => text[at + 3] = format_value(cs[k].value)
              /\ text[at + Width(cs[k])] = IF k < Len(cs) THEN Lit(" and ") ELSE Lit(NL)

C14_Witness ==
  /\ Rendered
  /\ Has(last.args.select, "conditions")
  /\ last.args.select["conditions"] =
       <<[column |-> "deleted_at", arity |-> 1, operator |-> "is null"],
         [column |-> "status", arity |-> 2, operator |-> "=", value |-> "active"]>>
  /\ HasPiece(last.returned, format_value("active"))

(* ------------------------------------------------------------------ *)
(* inspect(), one action per answer of the database                    *)
(* ------------------------------------------------------------------ *)
(* the callback rows.map runs for the i-th listed row *)
callback(coll, i) ==
  IF coll = "types" THEN discoverType(catalog, udts, catalog.typeRows[i])
  ELSE IF coll = "tables" THEN discoverTable(catalog, udts, catalog.tableRows[i])
  ELSE discoverFunction(catalog, udts, catalog.routineRows[i])

(* a callback of discoverFunctions deduces the return type, and throws on
   it, before it issues its parameter query *)
throwsBeforeQuery(coll, i) ==
  /\ coll = "functions"
  /\ forceDeduceType(catalog.routineRows[i].type, catalog.routineRows[i].udt, udts).error
       # NoError

(* inspect awaits the Promise.all of a collection *)
AllOf(coll) ==
  IF coll = "types" THEN "types.all"
  ELSE IF coll = "tables" THEN "tables.all"
  ELSE "functions.all"

(* the discovery that follows a collection's *)
After(coll) ==
  IF coll = "types" THEN "tables"
  ELSE IF coll = "tables" THEN "functions"
  ELSE "resolve"

(* a Promise.all keeping the values in the order the promises fulfil *)
fulfil_inArrivalOrder(values, index, value) ==
  [k \in DOMAIN values \cup {Cardinality(DOMAIN values) + 1} |->
     IF k = Cardinality(DOMAIN values) + 1 THEN value ELSE values[k]]

(* Promise.all keeps the value of the index-th promise at index *)
fulfil(values, index, value) ==
  [k \in DOMAIN values \cup {index} |-> IF k = index THEN value ELSE values[k]]

(* the listing query answers and rows.map starts every callback: each
   issues its per-item query at once *)
ListingAnswers(coll) ==
  /\ pc = coll
  /\ LET early == {i \in DOMAIN ListingOf(coll) : throwsBeforeQuery(coll, i)}
     IN  /\ inflight' = DOMAIN ListingOf(coll) \ early
         /\ IF early = {}
              THEN pc' = AllOf(coll) /\ error' = error
              ELSE /\ pc' = "failed"
                   /\ error' = callback(coll, CHOOSE i \in early :
                                                \A j \in early : i <= j).error
  /\ settled' = <<>>
  /\ UNCHANGED <<catalog, udts, enums, types, tables, functions, resolved, arrivals>>
  /\ UNCHANGED builderVars

(* one per-item query answers: its callback maps the rows and fulfils, or
   throws, which rejects the Promise.all and inspect with it *)
QueryAnswers(coll) ==
  /\ pc = AllOf(coll)
  /\ \E i \in inflight :
       LET c == callback(coll, i)
       IN  /\ inflight' = inflight \ {i}
           /\ arrivals' = Append(arrivals, <<coll, i>>)
           /\ IF c.error = NoError
                THEN /\ settled' = fulfil(settled, i, c.item)
                     /\ pc' = pc
                     /\ error' = error
                ELSE /\ settled' = settled
                     /\ pc' = "failed"
                     /\ error' = c.error
  /\ UNCHANGED <<catalog, udts, enums, types, tables, functions, resolved>>
  /\ UNCHANGED builderVars

(* every callback has fulfilled: the await gives the values by index *)
PromiseAll(coll) ==
  /\ pc = AllOf(coll)
  /\ inflight = {}
  /\ Cardinality(DOMAIN settled) = Len(ListingOf(coll))
  /\ LET values == [k \in 1..Len(ListingOf(coll)) |-> settled[k]]
     IN  /\ types' = IF coll = "types" THEN values ELSE types
         /\ tables' = IF coll = "tables" THEN values ELSE tables
         /\ functions' = IF coll = "functions" THEN values ELSE functions
  /\ pc' = After(coll)
  /\ settled' = <<>>
  /\ UNCHANGED <<catalog, udts, enums, resolved, error, inflight, arrivals>>
  /\ UNCHANGED builderVars

(* a query still in flight answers after inspect has rejected *)
LateAnswer ==
  /\ pc = "failed"
  /\ \E i \in inflight :
       /\ inflight' = inflight \ {i}
       /\ arrivals' = Append(arrivals, <<"late", i>>)
  /\ UNCHANGED <<settled, inspectVars, builderVars>>

(* the catalogs: one collection lists up to MaxListed rows, the other two
   one row each; every listed row has one attribute, column or parameter *)
MaxListed == 3

S_on == <<"o","n">>
S_flag == <<"f","l","a","g">>

ArrivingEnumRows ==
  {[name |-> S_sad, order |-> 1, enum_name |-> S_mood],
   [name |-> S_ok, order |-> 2, enum_name |-> S_mood],
   [name |-> S_on, order |-> 1, enum_name |-> S_flag]}

(* the orders in which the label rows may arrive: the query has no order by *)
EnumArrivals ==
  {f \in [1..Cardinality(ArrivingEnumRows) -> ArrivingEnumRows] :
     \A i, j \in DOMAIN f : f[i] = f[j] => i = j}

KindsOf(coll) ==
  IF coll = "functions" THEN {"number", "enum", "unhandled", "unhandled return"}
  ELSE {"number", "enum", "unhandled"}

KindInput(kind) ==
  IF kind = "enum" THEN In(S_USER_DEFINED, S_mood, TRUE)
  ELSE IF kind = "unhandled" THEN In(S_json, S_json, TRUE)
  ELSE In(S_bigint, S_int8, FALSE)

OwnerName(coll, k) ==
  IF coll = "types" THEN <<"t", "y", "_", Digits[k + 1]>>
  ELSE IF coll = "tables" THEN <<"t", "b", "_", Digits[k + 1]>>
  ELSE <<"f", "n", "_", Digits[k + 1]>>

(* the catalog's own name of a routine: unique, where routine_name is shared
   by the overloads of a routine *)
SpecificName(k) == <<"f", "n", "_", Digits[k + 1], "_", "1", "6", "3", "8", Digits[k + 1]>>

KindsIn(coll, wide, kinds) == IF coll = wide THEN kinds ELSE <<"number">>

ListedRows(coll, kinds, overloaded) ==
  [k \in DOMAIN kinds |->
     IF coll = "functions"
       THEN [name |-> OwnerName(coll, IF overloaded THEN 1 ELSE k),
             type |-> IF kinds[k] = "unhandled return" THEN S_json ELSE S_boolean,
             udt |-> IF kinds[k] = "unhandled return" THEN S_json ELSE S_bool,
             specific_name |-> SpecificName(k)]
       ELSE [name |-> OwnerName(coll, k)]]

ItemRows(coll, kinds) ==
  [k \in DOMAIN kinds |->
     LET i == KindInput(kinds[k])
     IN  IF coll = "functions"
           THEN [owner |-> SpecificName(k), name |-> ItemName(k), order |-> 1,
                 type |-> i.type, udt |-> i.udt]
           ELSE [owner |-> OwnerName(coll, k), name |-> ItemName(k), order |-> 1,
                 nullable |-> i.nullable, type |-> i.type, udt |-> i.udt]]

WideCatalog(order, wide, kinds, overloaded) ==
  [enumRows |-> order,
   typeRows |-> ListedRows("types", KindsIn("types", wide, kinds), FALSE),
   attributeRows |-> ItemRows("types", KindsIn("types", wide, kinds)),
   tableRows |-> ListedRows("tables", KindsIn("tables", wide, kinds), FALSE),
   columnRows |-> ItemRows("tables", KindsIn("tables", wide, kinds)),
   routineRows |-> ListedRows("functions", KindsIn("functions", wide, kinds), overloaded),
   parameterRows |-> ItemRows("functions", KindsIn("functions", wide, kinds))]

InitDiscover ==
  /\ \E order \in EnumArrivals, wide \in Collections, n \in 0..MaxListed :
       \E kinds \in [1..n -> KindsOf(wide)], overloaded \in BOOLEAN :
         /\ overloaded => wide = "functions"
         /\ catalog = WideCatalog(order, wide, kinds, overloaded)
  /\ udts = DefaultUdts
  /\ pc = "enums"
  /\ enums = <<>>
  /\ types = <<>>
  /\ tables = <<>>
  /\ functions = <<>>
  /\ resolved = 0
  /\ error = NoError
  /\ BuilderIdle
  /\ FanIdle

NextDiscover ==
  \/ DiscoverEnums
  \/ \E coll \in Collections : ListingAnswers(coll)
  \/ \E coll \in Collections : QueryAnswers(coll)
  \/ \E coll \in Collections : PromiseAll(coll)
  \/ LateAnswer
  \/ ResolveTypes

SpecDiscover == InitDiscover /\ [][NextDiscover]_vars

(* ------------------------------------------------------------------ *)
(* Properties of discovery                                             *)
(* ------------------------------------------------------------------ *)
(* C15: the number of per-item queries in flight at the same time stays
   under a cap that does not grow with the catalog: in catalogs that list
   up to MaxListed rows, under MaxListed. *)
C15_InFlightCapped == Cardinality(inflight) < MaxListed

UniqueNames(coll) == \A i, j \in DOMAIN coll : coll[i].name = coll[j].name => i = j

(* C16: in every schema inspect returns, no two enums, no two composite
   types, no two tables and no two routines have the same name. *)
C16_NamesUnique ==
  pc = "done" =>
    /\ UniqueNames(enums)
    /\ UniqueNames(types)
    /\ UniqueNames(tables)
    /\ UniqueNames(functions)

(* the places of a label row in the discovered enums *)
PlacesOf(row) ==
  {<<i, k>> \in UNION {{<<i, k>> : k \in DOMAIN enums[i].fields} : i \in DOMAIN enums} :
     enums[i].fields[k] = [name |-> row.name, order |-> row.order]}

(* C17: whatever the order the label rows arrive in, every row's label is
   exactly once in the fields of the enum of the row's enum name and in no
   other enum, and the fields of each enum are in strictly increasing
   sequence-number order. *)
C17_EnumFieldsOrdered ==
  pc \notin {"enums", "idle"} =>
    /\ \A k \in DOMAIN catalog.enumRows :
         /\ Cardinality(PlacesOf(catalog.enumRows[k])) = 1
         /\ \A place \in PlacesOf(catalog.enumRows[k]) :
              enums[place[1]].name = catalog.enumRows[k].enum_name
    /\ \A i \in DOMAIN enums :
         \A a, b \in DOMAIN enums[i].fields :
           a < b => enums[i].fields[a].order < enums[i].fields[b].order

(* the collection of the schema discovered for a listing *)
Items(coll) ==
  IF coll = "types" THEN types ELSE IF coll = "tables" THEN tables ELSE functions

(* what the callbacks make of the listing, in listing order *)
Expected(coll) == [i \in DOMAIN ListingOf(coll) |-> callback(coll, i).item]

(* C19: whatever the order the per-item queries answer in, resolveTypes
   starts with no discovery query in flight, each type, table and routine
   holds the rows fetched for it, the collections are in listing order, and
   the schema inspect returns is the one the catalog determines. *)
C19_SameSchemaForAnyInterleaving ==
  /\ pc \in {"resolve", "done"} =>
       /\ inflight = {}
       /\ Len(arrivals) = Len(types) + Len(tables) + Len(functions)
       /\ \A coll \in Collections :
            /\ DOMAIN Items(coll) = DOMAIN ListingOf(coll)
            /\ \A i \in DOMAIN Items(coll) : Items(coll)[i].name = ListingOf(coll)[i].name
            /\ {pos \in Positions(Schema) : pos[1] = coll} = CatalogPositions(coll)
       /\ \A pos \in Positions(Schema) :
            /\ ItemAt(Schema, pos).name = RowAt(pos).name
            /\ ItemAt(Schema, pos).order = RowAt(pos).order
  /\ pc = "resolve" => \A coll \in Collections : Items(coll) = Expected(coll)
  /\ pc = "done" =>
       LET r == resolveTypes([enums |-> enums, types |-> Expected("types"),
                              tables |-> Expected("tables"),
                              functions |-> Expected("functions")])
       IN  types = r.types /\ tables = r.tables /\ functions = r.functions

C19_Witness ==
  /\ pc = "done"
  /\ Len(tables) = MaxListed
  /\ \E a, b \in DOMAIN arrivals :
       a < b /\ arrivals[a] = <<"tables", 3>> /\ arrivals[b] = <<"tables", 1>>
  /\ tables[3].columns[1].tsType = T_enum(snakeToPascal(S_mood))
  /\ tables[1].columns[1].tsType = T_number

(* C18: resolveTypes looks a name up among the composite types first and
   among the enums after: a name of a composite type becomes a composite
   reference, a name of an enum only an enum reference; the reference
   carries the name looked up, so it names exactly one member of its
   collection. *)
C18_ReferenceCarriesName ==
  [][(pc = "resolve" /\ pc' = "done") =>
       \A pos \in Positions(Schema) :
         ItemAt(Schema, pos).tsType[1] = UNRESOLVED_UDT =>
           LET X == ItemAt(Schema, pos).tsType[2]
               ref == ItemAt(SchemaNext, pos).tsType
           IN  /\ Named(types, X) => ref = <<"interface", X>>
               /\ (~Named(types, X) /\ Named(enums, X)) => ref = <<"enum", X>>
               /\ Cardinality({i \in DOMAIN (IF ref[1] = "interface" THEN types ELSE enums) :
                                 (IF ref[1] = "interface" THEN types ELSE enums)[i].name
                                   = ref[2]}) = 1]_vars

(* ------------------------------------------------------------------ *)
(* Properties of the conditions                                        *)
(* ------------------------------------------------------------------ *)
(* C20: after any where calls with any arguments every condition of the
   model is well tagged: arity 1 with an operator of {is null, is not null}
   and no value field, or arity 2 with an operator of {=, >, <, >=, <=} and
   a value field; the value is undefined only when the call's second
   argument was. *)
C20_ConditionsWellTagged ==
  /\ \A i \in DOMAIN ConditionsOf(model) :
       LET c == ConditionsOf(model)[i]
       IN  /\ c.arity \in {1, 2}
           /\ c.arity = 1 => isUnaryOperator(c.operator) /\ ~Has(c, "value")
           /\ c.arity = 2 => isBinaryOperator(c.operator) /\ Has(c, "value")
  /\ (last.method = "where" /\ Appended.arity = 2) =>
       (Appended.value = Undefined <=> last.args.operator = Undefined)

C20_Witness ==
  /\ builder = "UpdateBuilder"
  /\ last.method = "where"
  /\ last.args.operator = "active"
  /\ last.args.value = "x"
  /\ ConditionsOf(model) =
       <<Unary("status", "is null"), Binary("status", "=", Undefined),
         Binary("status", "=", "active")>>

(* ------------------------------------------------------------------ *)
(* deduceType on its own                                               *)
(* ------------------------------------------------------------------ *)
DeducedTypes == RichTypes

DeducedUdts == RichUdts \cup {S_USER_DEFINED, S_timestamp}

(* the allow-lists of the project file: any strings, the empty one included *)
DeducedUdtOptions ==
  RichUdtOptions \cup {[string |-> <<EmptyStr>>, number |-> <<>>],
                       [string |-> <<>>, number |-> <<EmptyStr>>]}

(* deduceType(type, udt, udts) *)
DeduceType ==
  /\ last.method = "none"
  /\ last' = Call("deduceType", [type |-> model.type, udt |-> model.udt, udts |-> udts],
                  deduceType(model.type, model.udt, udts))
  /\ UNCHANGED <<builder, model, transport, thrown, chain>>
  /\ UNCHANGED <<inspectVars, fanVars>>

InitDeduce ==
  /\ catalog = EmptyCatalog
  /\ udts \in DeducedUdtOptions
  /\ pc = "idle"
  /\ enums = <<>>
  /\ types = <<>>
  /\ tables = <<>>
  /\ functions = <<>>
  /\ resolved = 0
  /\ error = NoError
  /\ FanIdle
  /\ builder = "none"
  /\ model \in [type : DeducedTypes, udt : DeducedUdts]
  /\ transport = <<>>
  /\ thrown = NoError
  /\ last = [method |-> "none"]
  /\ chain = 0

SpecDeduce == InitDeduce /\ [][DeduceType]_vars

Deduced == last.method = "deduceType"

(* the primitive a name of the built-in lists stands for *)
PrimitiveOf(name) ==
  IF name = S_boolean THEN T_boolean
  ELSE IF name \in NumberTypes THEN T_number
  ELSE IF name \in StringTypes THEN T_string
  ELSE T_Date

(* what C21 says of one call of deduceType *)
ArrayOnlyOfUnresolved ==
    LET type == last.args.type
        udt == last.args.udt
        u == last.args.udts
        r == last.returned
    IN  /\ r[1] = "array" =>
             /\ type = S_ARRAY
             /\ udt # Null
             /\ ~RuleBoolean(type, udt)
             /\ ~RuleNumber(type, udt, u)
             /\ ~RuleString(type, udt, u)
             /\ ~RuleDate(type, udt)
             /\ r[2][1] = UNRESOLVED_UDT
        /\ (type = S_ARRAY
             /\ udt \in {S_boolean} \cup NumberTypes \cup StringTypes \cup KnownDateTypes)
             => r = PrimitiveOf(udt)

(* C21 as stated: deduceType returns an Array only when the raw type is
   ARRAY, an element name is there and neither name matches the Boolean,
   Number, String or Date rule; the element of an Array it returns is an
   UnresolvedUdt marker, never a primitive or an Array; a raw type ARRAY
   with the element name of a known primitive deduces to that primitive. *)
C21_ArrayOnlyOfUnresolved == Deduced => ArrayOnlyOfUnresolved

(* C21 (amended): the same for every call but the ones with an empty element
   name and an allow-list that holds the empty string, where the element is
   deduced from the allow-list. *)
C21_ArrayOfUnresolved ==
  (Deduced /\ ~(/\ last.args.udt = EmptyStr
                /\ \/ includes(last.args.udts.string, EmptyStr)
                   \/ includes(last.args.udts.number, EmptyStr)))
    => ArrayOnlyOfUnresolved

C21_Witness ==
  /\ Deduced
  /\ last.args.type = S_ARRAY
  /\ last.args.udt = S_int8
  /\ last.returned = T_number

(* ------------------------------------------------------------------ *)
(* The API middleware                                                  *)
(* ------------------------------------------------------------------ *)
(* String.prototype.toUpperCase *)
toUpperCaseAll(s) == [i \in DOMAIN s |-> toUpperCase(s[i])]

(* the case labels of the switch *)
Case_select == <<"G","E","T"," ","s","e","l","e","c","t">>
Case_insert == <<"P","O","S","T"," ","i","n","s","e","r","t">>
Case_update == <<"P","A","T","C","H"," ","u","p","d","a","t","e">>
Case_delete == <<"D","E","L","E","T","E"," ","d","e","l","e","t","e">>
Case_call == <<"P","O","S","T"," ","c","a","l","l">>

(* JSON text is kept as the value it encodes, marked as text *)
JSON_stringify(v) == [json |-> v]

JSON_parse(text) == text.json

(* context.method.toUpperCase() + " " + context.path.toUpperCase() *)
route(context) == toUpperCaseAll(context.method) \o <<" ">> \o toUpperCaseAll(context.path)

(* the case of the switch a route takes; "default" when no label equals it *)
switch(r) ==
  IF r = Case_select THEN "select"
  ELSE IF r = Case_insert THEN "insert"
  ELSE IF r = Case_update THEN "update"
  ELSE IF r = Case_delete THEN "delete"
  ELSE IF r = Case_call THEN "call"
  ELSE "default"

(* the requests: the ones WebTransport sends, and others *)
Methods ==
  {<<"G","E","T">>,
   <<"g","e","t">>,
   <<"P","O","S","T">>,
   <<"p","o","s","t">>,
   <<"P","A","T","C","H">>,
   <<"D","E","L","E","T","E">>,
   <<"P","U","T">>}

Paths ==
  {<<"/","s","e","l","e","c","t">>,
   <<"s","e","l","e","c","t">>,
   <<"/","S","E","L","E","C","T">>,
   <<"/","i","n","s","e","r","t">>,
   <<"/","u","p","d","a","t","e">>,
   <<"/","d","e","l","e","t","e">>,
   <<"/","c","a","l","l">>,
   <<"/","o","t","h","e","r">>,
   <<"/">>}

Payloads == {"payload1", "payload2"}

Requests ==
  {[method |-> m, path |-> p, query |-> JSON_stringify(v), body |-> JSON_stringify(v)] :
     m \in Methods, p \in Paths, v \in Payloads}

(* the handler middleware(api) returns, on one request *)
Middleware ==
  /\ last.method = "none"
  /\ \E reply \in Replies :
       LET case == switch(route(model))
           payload == IF case = "select" THEN model.query ELSE model.body
       IN  IF case = "default"
             THEN /\ transport' = transport
                  /\ last' = Call("middleware", model,
                                  [type |-> "application/json", status |-> 404])
             ELSE /\ transport' = Append(transport, [op |-> case,
                                                     arg |-> JSON_parse(payload),
                                                     reply |-> reply])
                  /\ last' = Call("middleware", model,
                                  [type |-> "application/json",
                                   body |-> JSON_stringify(reply)])
  /\ UNCHANGED <<builder, model, thrown, chain>>
  /\ UNCHANGED <<inspectVars, fanVars>>

InitMiddleware ==
  /\ InspectIdle
  /\ builder = "none"
  /\ model \in Requests
  /\ transport = <<>>
  /\ thrown = NoError
  /\ last = [method |-> "none"]
  /\ chain = 0

SpecMiddleware == InitMiddleware /\ [][Middleware]_vars

Handled == last.method = "middleware"

(* the method and the path are the ones of an operation *)
Names(request, method, operation) ==
  /\ toUpperCaseAll(request.method) = method
  /\ request.path \in {operation, <<"/">> \o operation}

(* the operation a request names, "none" when it names none *)
NamedOperation(request) ==
  IF Names(request, <<"G","E","T">>, <<"s","e","l","e","c","t">>) THEN "select"
  ELSE IF Names(request, <<"P","O","S","T">>, <<"i","n","s","e","r","t">>) THEN "insert"
  ELSE IF Names(request, <<"P","A","T","C","H">>, <<"u","p","d","a","t","e">>) THEN "update"
  ELSE IF Names(request, <<"D","E","L","E","T","E">>, <<"d","e","l","e","t","e">>)
    THEN "delete"
  ELSE IF Names(request, <<"P","O","S","T">>, <<"c","a","l","l">>) THEN "call"
  ELSE "none"

(* C22: for a request whose method and path name one of the five
   operations the middleware calls that transport operation once with the
   parsed payload and writes the JSON text of its result as the body; for
   every other request it calls no transport operation and sets status
   404. *)
C22_RoutesToOperation ==
  Handled =>
    LET request == last.args
        response == last.returned
        operation == NamedOperation(request)
    IN  IF operation # "none"
          THEN /\ Len(transport) = 1
               /\ transport[1].op = operation
               /\ transport[1].arg = JSON_parse(IF operation = "select" THEN request.query
                                                                       ELSE request.body)
               /\ Has(response, "body")
               /\ response.body = JSON_stringify(transport[1].reply)
          ELSE /\ transport = <<>>
               /\ Has(response, "status")
               /\ response.status = 404

====
